---- MODULE Spec2Model ----
(***************************************************************************)
(* A model of the result-enum library: the Result and Option containers    *)
(* (dist/result.js, dist/option.js), the standalone async adapter          *)
(* (src/async.ts) and the Symbol.hasInstance hooks of the four factories.  *)
(*                                                                         *)
(* JavaScript values are records tagged by the field t.  Objects carry an  *)
(* id (their identity); primitives do not.  A call's outcome is either     *)
(* Return(v) or Throw(v).                                                  *)
(***************************************************************************)
EXTENDS Integers, Sequences, FiniteSets, TLC

VARIABLES
    self,        \* the container the program currently holds (or NoObject)
    path,        \* the calls that produced self: <<[op, arg]>>, factory first
    last,        \* the most recent call: [op, recv, arg, out]
    nextId,      \* the next free object identity
    promise,     \* the caller's promise: [state, val]
    asyncPc,     \* position of the call async(p): "idle", "await", "done"
    asyncOut,    \* what the promise returned by async(p) settled with
    fromAsyncPc, \* position of the call Result.fromAsync(() => p)
    fromAsyncOut,\* what the promise returned by Result.fromAsync settled with
    optionAsyncPc,  \* position of the call Option.fromAsync(() => p)
    optionAsyncOut, \* what the promise returned by Option.fromAsync settled with
    pInput,      \* Result.partition: the input array
    pIdx,        \* Result.partition: index of the next element reduce visits
    pAcc,        \* Result.partition: the accumulator {ok, err}
    pOut         \* Result.partition: the call's outcome once it has ended

vars == <<self, path, last, nextId, promise, asyncPc, asyncOut,
          fromAsyncPc, fromAsyncOut, optionAsyncPc, optionAsyncOut,
          pInput, pIdx, pAcc, pOut>>

-----------------------------------------------------------------------------
(* Bounds of the model *)

\* the longest chain of container-returning calls applied after the factory
MaxChain == 2
\* the longest array handed to Result.partition
MaxLen == 3

-----------------------------------------------------------------------------
(* JavaScript values *)

Undefined == [t |-> "undefined"]
Null == [t |-> "null"]
Bool(b) == [t |-> "boolean", b |-> b]
Num(n) == [t |-> "number", n |-> n]
Str(s) == [t |-> "string", s |-> s]
\* a plain object literal {}
PlainObject(id) == [t |-> "object", id |-> id, proto |-> "Object.prototype"]
\* Object.create(Error): an object whose prototype chain holds the Error
\* constructor; it inherits name "Error" from the function and has neither
\* stack nor message
ErrorLike(id) == [t |-> "object", id |-> id, proto |-> "Error"]
\* an Error instance; stack is its lines, <<>> when the stack is missing or empty
ErrorObject(id, name, message, stack) ==
    [t |-> "error", id |-> id, name |-> name, message |-> message, stack |-> stack]
\* new Error(message), as the library builds it
NewError(message, id) ==
    ErrorObject(id, "Error", message, <<"Error: " \o message, "    at <anonymous>">>)
\* the TypeError the engine raises on a property read of null/undefined, on a
\* call of a missing method, or on the string conversion of a symbol
TypeError(message, id) ==
    ErrorObject(id, "TypeError", message, <<"TypeError: " \o message, "    at <anonymous>">>)

\* no container held yet
NoObject == [t |-> "nothing"]

Return(v) == [kind |-> "return", val |-> v]
Throw(v) == [kind |-> "throw", val |-> v]
NoOutcome == [kind |-> "none"]

\* ToBoolean
Truthy(v) ==
    CASE v.t = "undefined" -> FALSE
      [] v.t = "null" -> FALSE
      [] v.t = "boolean" -> v.b
      [] v.t = "number" -> v.n # 0
      [] v.t = "string" -> v.s # ""
      [] OTHER -> TRUE

\* the typeof operator
TypeOf(v) ==
    CASE v.t \in {"undefined", "boolean", "number", "string", "symbol"} -> v.t
      [] OTHER -> "object"

IsContainer(v) == v.t \in {"Result", "Option"}

\* v instanceof Error
InstanceOfError(v) == v.t = "error"

\* Error.isPrototypeOf(v): the Error constructor is in v's prototype chain
ErrorIsPrototypeOf(v) == v.t = "object" /\ v.proto = "Error"

\* v.stack, as a list of lines (<<>> when undefined or empty); v is not null/undefined
StackOf(v) == IF v.t = "error" THEN v.stack ELSE <<>>

\* `${v.message}` ; v is not null/undefined
MessageText(v) == IF v.t = "error" THEN v.message ELSE "undefined"

\* `${v.name}` ; v is an Error instance or has the Error constructor as prototype
NameText(v) == IF v.t = "error" THEN v.name ELSE "Error"

\* `${v}` for the values that convert without raising
ToStringText(v) ==
    CASE v.t = "undefined" -> "undefined"
      [] v.t = "null" -> "null"
      [] v.t = "boolean" -> IF v.b THEN "true" ELSE "false"
      [] v.t = "number" -> ToString(v.n)
      [] v.t = "string" -> v.s
      [] v.t = "error" -> v.name \o (IF v.message = "" THEN "" ELSE ": " \o v.message)
      [] v.t = "Result" -> "[object Result]"
      [] v.t = "Option" -> "[object Option]"
      [] OTHER -> "[object Object]"

-----------------------------------------------------------------------------
(* dist/result.js: class Result *)

\* constructor(input) { this.val = input }
NewResult(input, id) == [t |-> "Result", id |-> id, val |-> input]

\* The value of the expression shared by isOk and isErr:
\*   val instanceof Error ||
\*     (val && typeof val === "object" && Error.isPrototypeOf(val))
\* || and && yield one of their operands, so a falsy val is yielded itself.
ErrorTest(val) ==
    IF InstanceOfError(val) THEN Bool(TRUE)
    ELSE IF ~Truthy(val) THEN val
    ELSE IF TypeOf(val) # "object" THEN Bool(FALSE)
    ELSE Bool(ErrorIsPrototypeOf(val))

Result_isOk(this) == Bool(~Truthy(ErrorTest(this.val)))

Result_isErr(this) == ErrorTest(this.val)

\* formatError(err): reads this.val.stack (a TypeError when this.val is null or
\* undefined), rewrites err.stack and throws err.  h is a free identity.
Result_formatError(this, err, h) ==
    IF this.val.t \in {"undefined", "null"}
    THEN Throw(TypeError("Cannot read properties of " \o this.val.t
                           \o " (reading 'stack')", h))
    ELSE Throw([err EXCEPT !.stack =
            IF StackOf(this.val) # <<>>
            THEN <<err.message \o ": ">>
                   \o [i \in 1..Len(StackOf(this.val)) |-> "\t" \o StackOf(this.val)[i]]
            ELSE <<err.message \o ": " \o MessageText(this.val)>>])

Result_expect(this, msg, h) ==
    IF Truthy(Result_isErr(this))
    THEN Result_formatError(this, NewError(msg, h), h + 1)
    ELSE Return(this.val)

Result_expectErr(this, msg, h) ==
    IF Truthy(Result_isOk(this))
    THEN Result_formatError(this, NewError(msg, h), h + 1)
    ELSE Return(this.val)

\* unwrap() without the state check
Result_unwrap_unchecked(this, h) == Return(this.val)

Result_unwrap(this, h) ==
    IF Truthy(Result_isErr(this))
    THEN Result_formatError(this,
            NewError("Unwrap called on " \o NameText(this.val), h), h + 1)
    ELSE Return(this.val)

\* `${this.val}` raises a TypeError for a symbol
Result_unwrapErr(this, h) ==
    IF Truthy(Result_isOk(this))
    THEN IF this.val.t = "symbol"
         THEN Throw(TypeError("Cannot convert a Symbol value to a string", h))
         ELSE Throw(NewError("UnwrapError called on value - "
                               \o ToStringText(this.val), h))
    ELSE Return(this.val)

\* unwrapOr(fallback) that re-raises the failure instead of falling back
Result_unwrapOr_raising(this, fallback) ==
    IF Truthy(Result_isErr(this)) THEN Throw(this.val) ELSE Return(this.val)

Result_unwrapOr(this, fallback) ==
    IF Truthy(Result_isErr(this)) THEN Return(fallback) ELSE Return(this.val)

\* The caller's closures handed to map, mapErr, mapOr and unwrapOrElse: total
\* functions, named by what they return.
Fns == {"identity", "toError", "toNull", "toFive"}

\* an Error the caller built, with a stack
CallerError == ErrorObject(0 - 1, "Error", "fail", <<"Error: fail", "    at main">>)
\* an Error the caller built and stripped of stack, message and name
BareError == ErrorObject(0 - 2, "", "", <<>>)
\* an Error a caller's closure returns
MappedError == ErrorObject(0 - 3, "RangeError", "mapped", <<"RangeError: mapped">>)

\* fn(v)
Apply(fn, v) ==
    CASE fn = "identity" -> v
      [] fn = "toError" -> MappedError
      [] fn = "toNull" -> Null
      [] fn = "toFive" -> Num(5)

Result_unwrapOrElse(this, fn) ==
    IF Truthy(Result_isErr(this)) THEN Return(Apply(fn, this.val)) ELSE Return(this.val)

Result_map(this, fn, h) ==
    IF Truthy(Result_isOk(this))
    THEN Return(NewResult(Apply(fn, this.val), h))
    ELSE Return(this)

\* mapErr(fn) that hands back the receiver without applying fn
Result_mapErr_receiver(this, fn, h) == Return(this)

Result_mapErr(this, fn, h) ==
    IF Truthy(Result_isOk(this))
    THEN Return(this)
    ELSE Return(NewResult(Apply(fn, this.val), h))

Result_mapOr(this, fallback, fn) ==
    IF Truthy(Result_isOk(this)) THEN Return(Apply(fn, this.val)) ELSE Return(fallback)

Result_or(this, or) ==
    IF Truthy(Result_isOk(this)) THEN Return(this) ELSE Return(or)

Result_peek(this) == Return(this.val)

\* throw(): a call that ends without a return statement yields undefined
Result_throw(this) ==
    IF Truthy(Result_isErr(this)) THEN Throw(this.val) ELSE Return(Undefined)

Result_flatten(this) ==
    IF this.val.t = "Result" THEN Return(this.val) ELSE Return(this)

\* export function Ok(input)
Ok(input, h) == NewResult(input, h)

\* Err(input) that wraps a string only when it is truthy (`if (input && ...)`)
Err_truthy(input, h) ==
    IF TypeOf(input) = "string" /\ Truthy(input)
    THEN NewResult(NewError(input.s, h), h + 1)
    ELSE NewResult(input, h)

\* export function Err(input): a string is wrapped into new Error(input)
Err(input, h) ==
    IF TypeOf(input) = "string"
    THEN NewResult(NewError(input.s, h), h + 1)
    ELSE NewResult(input, h)

-----------------------------------------------------------------------------
(* dist/option.js: class Option *)

\* export const none = Symbol("None")
none == [t |-> "symbol", desc |-> "None"]

NewOption(input, id) == [t |-> "Option", id |-> id, val |-> input]

\* isSome() that also treats null and undefined as absent
Option_isSome_nullish(this) == Bool(this.val \notin {none, Null, Undefined})

Option_isSome(this) == Bool(this.val # none)

Option_isNone(this) == Bool(this.val = none)

Option_expect(this, msg, h) ==
    IF Truthy(Option_isNone(this)) THEN Throw(NewError(msg, h)) ELSE Return(this.val)

Option_unwrap(this, h) ==
    IF Truthy(Option_isNone(this))
    THEN Throw(NewError("Unwrap called on None", h))
    ELSE Return(this.val)

Option_unwrapOr(this, fallback) ==
    IF Truthy(Option_isNone(this)) THEN Return(fallback) ELSE Return(this.val)

\* fn is called without an argument
Option_unwrapOrElse(this, fn) ==
    IF Truthy(Option_isNone(this)) THEN Return(Apply(fn, Undefined)) ELSE Return(this.val)

Option_map(this, fn, h) ==
    IF Truthy(Option_isSome(this))
    THEN Return(NewOption(Apply(fn, this.val), h))
    ELSE Return(this)

Option_mapOr(this, fallback, fn) ==
    IF Truthy(Option_isSome(this)) THEN Return(Apply(fn, this.val)) ELSE Return(fallback)

Option_or(this, or) ==
    IF Truthy(Option_isSome(this)) THEN Return(this) ELSE Return(or)

Option_okOr(this, err, h) ==
    IF Truthy(Option_isSome(this)) THEN Return(Ok(this.val, h)) ELSE Return(Err(err, h))

Option_peek(this) == Return(this.val)

Option_flatten(this) ==
    IF this.val.t = "Option" THEN Return(this.val) ELSE Return(this)

\* export function Some(input)
Some(input, h) == NewOption(input, h)

\* export function None()
None(h) == NewOption(none, h)

\* ok() that tests the contained value's truthiness instead of isOk()
Result_ok_truthy(this, h) ==
    IF Truthy(this.val) THEN Return(Some(this.val, h)) ELSE Return(None(h))

\* Result.prototype.ok(), which needs Some and None
Result_ok(this, h) ==
    IF Truthy(Result_isOk(this)) THEN Return(Some(this.val, h)) ELSE Return(None(h))

-----------------------------------------------------------------------------
(* Static adapters and the Symbol.hasInstance hooks *)

\* A caller's zero-argument closure: it returns val or throws val.
Thunk(kind, val) == [kind |-> kind, val |-> val]

\* fn()
Run(fn) == IF fn.kind = "throw" THEN Throw(fn.val) ELSE Return(fn.val)

\* static from(fn) { try { return new Result(fn()) } catch (e) { return new Result(e) } }
Result_from(fn, h) ==
    IF Run(fn).kind = "return"
    THEN Return(NewResult(Run(fn).val, h))
    ELSE Return(NewResult(Run(fn).val, h))

\* from(fn) that tests the returned value's truthiness (`if (!result)`)
Option_from_falsy(fn, h) ==
    IF Run(fn).kind = "throw"
    THEN Run(fn)
    ELSE IF ~Truthy(Run(fn).val)
         THEN Return(NewOption(none, h))
         ELSE Return(NewOption(Run(fn).val, h))

\* static from(fn): no try/catch; null and undefined become none
Option_from(fn, h) ==
    IF Run(fn).kind = "throw"
    THEN Run(fn)
    ELSE IF Run(fn).val = Null \/ Run(fn).val = Undefined
         THEN Return(NewOption(none, h))
         ELSE Return(NewOption(Run(fn).val, h))

\* fromAsync(fn) that catches the rejection and resolves to None
Option_fromAsync_catching(settled, h) ==
    IF settled.kind = "throw" \/ settled.val = Null \/ settled.val = Undefined
    THEN Return(NewOption(none, h))
    ELSE Return(NewOption(settled.val, h))

\* Option.fromAsync(fn) after `await fn()` has ended with the outcome settled:
\* no try/catch, so a rejection rejects the promise the call returned; null and
\* undefined become none
Option_fromAsync(settled, h) ==
    IF settled.kind = "throw"
    THEN settled
    ELSE IF settled.val = Null \/ settled.val = Undefined
         THEN Return(NewOption(none, h))
         ELSE Return(NewOption(settled.val, h))

\* a || false
OrFalse(a) == IF Truthy(a) THEN a ELSE Bool(FALSE)

\* The hooks: if (typeof instance !== "object") return false;
\*            return instance?.isX() || false
\* instance?.isX() is undefined for null, and a TypeError for an object that has
\* no method isX.
Ok_hasInstance(instance, h) ==
    IF TypeOf(instance) # "object" THEN Return(Bool(FALSE))
    ELSE IF instance = Null THEN Return(OrFalse(Undefined))
    ELSE IF instance.t # "Result"
         THEN Throw(TypeError("instance?.isOk is not a function", h))
         ELSE Return(OrFalse(Result_isOk(instance)))

Err_hasInstance(instance, h) ==
    IF TypeOf(instance) # "object" THEN Return(Bool(FALSE))
    ELSE IF instance = Null THEN Return(OrFalse(Undefined))
    ELSE IF instance.t # "Result"
         THEN Throw(TypeError("instance?.isErr is not a function", h))
         ELSE Return(OrFalse(Result_isErr(instance)))

Some_hasInstance(instance, h) ==
    IF TypeOf(instance) # "object" THEN Return(Bool(FALSE))
    ELSE IF instance = Null THEN Return(OrFalse(Undefined))
    ELSE IF instance.t # "Option"
         THEN Throw(TypeError("instance?.isSome is not a function", h))
         ELSE Return(OrFalse(Option_isSome(instance)))

None_hasInstance(instance, h) ==
    IF TypeOf(instance) # "object" THEN Return(Bool(FALSE))
    ELSE IF instance = Null THEN Return(OrFalse(Undefined))
    ELSE IF instance.t # "Option"
         THEN Throw(TypeError("instance?.isNone is not a function", h))
         ELSE Return(OrFalse(Option_isNone(instance)))

\* x instanceof F: ToBoolean of what F[Symbol.hasInstance](x) returns
InstanceOf(hook) ==
    IF hook.kind = "return" THEN Return(Bool(Truthy(hook.val))) ELSE hook

-----------------------------------------------------------------------------
(* The values the caller supplies *)

NestedResult == NewResult(Num(5), 0 - 6)
NestedOption == NewOption(Num(5), 0 - 7)
ErrorProtoObject == ErrorLike(0 - 4)
EmptyObject == PlainObject(0 - 5)

\* values that are neither containers nor the absence marker
Plain ==
    {Undefined, Null, Bool(FALSE), Num(0), Num(5), Str(""), Str("boom"),
     CallerError, BareError, ErrorProtoObject, EmptyObject}

Values == Plain \cup {NestedResult, NestedOption}

Thunks == {Thunk(k, v) : k \in {"return", "throw"}, v \in Values}

\* messages handed to expect and expectErr
Msgs == {"expected"}

\* fallbacks handed to unwrapOr and mapOr
Fallbacks == {Num(7)}

\* failure arguments handed to okOr
OkOrArgs == {CallerError, BareError, Str("boom"), Str("")}

-----------------------------------------------------------------------------
(* The container program: one factory call, then method calls on the container *)

asyncVars == <<promise, asyncPc, asyncOut, fromAsyncPc, fromAsyncOut,
               optionAsyncPc, optionAsyncOut>>
partitionVars == <<pInput, pIdx, pAcc, pOut>>

NoCall == [op |-> "none", recv |-> NoObject, arg |-> <<>>, out |-> NoOutcome]

AsyncIdle ==
    /\ promise = [state |-> "pending", val |-> Undefined]
    /\ asyncPc = "idle" /\ asyncOut = NoOutcome
    /\ fromAsyncPc = "idle" /\ fromAsyncOut = NoOutcome
    /\ optionAsyncPc = "idle" /\ optionAsyncOut = NoOutcome

PartitionIdle ==
    /\ pInput = <<>> /\ pIdx = 1
    /\ pAcc = [ok |-> <<>>, err |-> <<>>] /\ pOut = NoOutcome

Init ==
    /\ self = NoObject /\ path = <<>> /\ last = NoCall /\ nextId = 1
    /\ AsyncIdle /\ PartitionIdle

\* the first identity not used by the object v built at or after nextId
After(v) == IF IsContainer(v) /\ v.id >= nextId THEN v.id + 1 ELSE nextId

Call(op, recv, arg, out) == [op |-> op, recv |-> recv, arg |-> arg, out |-> out]

\* A factory or static adapter call: the program keeps the container it returns.
\* An error object a throwing call built is dropped with the call, so its
\* identity is free again.
Construct(op, arg, out) ==
    /\ self = NoObject
    /\ last' = Call(op, NoObject, arg, out)
    /\ IF out.kind = "return"
       THEN self' = out.val /\ path' = <<[op |-> op, arg |-> arg]>>
            /\ nextId' = After(out.val)
       ELSE UNCHANGED <<self, path, nextId>>
    /\ UNCHANGED <<asyncVars, partitionVars>>

\* A call that yields a plain value or raises: the program keeps its container.
Extract(op, arg, out) ==
    /\ last' = Call(op, self, arg, out)
    /\ UNCHANGED <<self, path, nextId, asyncVars, partitionVars>>

\* The instanceof operator applied to a value x: no method of the held
\* container is called.
Operator(op, arg, out) ==
    /\ last' = Call(op, NoObject, arg, out)
    /\ UNCHANGED <<self, path, nextId, asyncVars, partitionVars>>

\* A call that yields a container, in a program that goes on with the container
\* returned.  spent is the first identity free after the call.
Chain(op, arg, out, spent) ==
    /\ Len(path) <= MaxChain
    /\ last' = Call(op, self, arg, out)
    /\ self' = out.val
    /\ path' = Append(path, [op |-> op, arg |-> arg])
    /\ nextId' = spent
    /\ UNCHANGED <<asyncVars, partitionVars>>

IsResult == self.t = "Result"
IsOption == self.t = "Option"

CallOk == \E v \in Values : Construct("Ok", <<v>>, Return(Ok(v, nextId)))
CallErr == \E v \in Values : Construct("Err", <<v>>, Return(Err(v, nextId)))
CallSome == \E v \in Values : Construct("Some", <<v>>, Return(Some(v, nextId)))
CallNone == Construct("None", <<>>, Return(None(nextId)))
CallResultFrom == \E fn \in Thunks : Construct("Result.from", <<fn>>, Result_from(fn, nextId))
CallOptionFrom == \E fn \in Thunks : Construct("Option.from", <<fn>>, Option_from(fn, nextId))

ResultIsOk == IsResult /\ Extract("isOk", <<>>, Return(Result_isOk(self)))
ResultIsErr == IsResult /\ Extract("isErr", <<>>, Return(Result_isErr(self)))
ResultExpect ==
    IsResult /\ \E msg \in Msgs : Extract("expect", <<msg>>, Result_expect(self, msg, nextId))
ResultExpectErr ==
    IsResult /\ \E msg \in Msgs :
        Extract("expectErr", <<msg>>, Result_expectErr(self, msg, nextId))
ResultUnwrap == IsResult /\ Extract("unwrap", <<>>, Result_unwrap(self, nextId))
ResultUnwrapErr == IsResult /\ Extract("unwrapErr", <<>>, Result_unwrapErr(self, nextId))
ResultUnwrapOr ==
    IsResult /\ \E fb \in Fallbacks : Extract("unwrapOr", <<fb>>, Result_unwrapOr(self, fb))
ResultUnwrapOrElse ==
    IsResult /\ \E fn \in Fns : Extract("unwrapOrElse", <<fn>>, Result_unwrapOrElse(self, fn))
ResultMapOr ==
    IsResult /\ \E fb \in Fallbacks, fn \in Fns :
        Extract("mapOr", <<fb, fn>>, Result_mapOr(self, fb, fn))
ResultPeek == IsResult /\ Extract("peek", <<>>, Result_peek(self))
ResultThrow == IsResult /\ Extract("throw", <<>>, Result_throw(self))

\* the alternatives handed to or: built by the caller just before the call
ResultAlts(h) == {Ok(Num(5), h), Err(Str("alt"), h)}
OptionAlts(h) == {Some(Num(5), h), None(h)}

ResultMap ==
    IsResult /\ \E fn \in Fns : Extract("map", <<fn>>, Result_map(self, fn, nextId))
ResultMapErr ==
    IsResult /\ \E fn \in Fns : Extract("mapErr", <<fn>>, Result_mapErr(self, fn, nextId))
ResultOr ==
    IsResult /\ \E or \in ResultAlts(nextId) : Extract("or", <<or>>, Result_or(self, or))
ResultOk == IsResult /\ Extract("ok", <<>>, Result_ok(self, nextId))
ResultFlatten == IsResult /\ Extract("flatten", <<>>, Result_flatten(self))

OptionIsSome == IsOption /\ Extract("isSome", <<>>, Return(Option_isSome(self)))
OptionIsNone == IsOption /\ Extract("isNone", <<>>, Return(Option_isNone(self)))
OptionExpect ==
    IsOption /\ \E msg \in Msgs : Extract("expect", <<msg>>, Option_expect(self, msg, nextId))
OptionUnwrap == IsOption /\ Extract("unwrap", <<>>, Option_unwrap(self, nextId))
OptionUnwrapOr ==
    IsOption /\ \E fb \in Fallbacks : Extract("unwrapOr", <<fb>>, Option_unwrapOr(self, fb))
OptionUnwrapOrElse ==
    IsOption /\ \E fn \in Fns : Extract("unwrapOrElse", <<fn>>, Option_unwrapOrElse(self, fn))
OptionMapOr ==
    IsOption /\ \E fb \in Fallbacks, fn \in Fns :
        Extract("mapOr", <<fb, fn>>, Option_mapOr(self, fb, fn))
OptionPeek == IsOption /\ Extract("peek", <<>>, Option_peek(self))

OptionMap ==
    IsOption /\ \E fn \in Fns : Extract("map", <<fn>>, Option_map(self, fn, nextId))
OptionOr ==
    IsOption /\ \E or \in OptionAlts(nextId) : Extract("or", <<or>>, Option_or(self, or))
OptionOkOr ==
    IsOption /\ \E err \in OkOrArgs :
        Extract("okOr", <<err>>, Option_okOr(self, err, nextId))
OptionFlatten == IsOption /\ Extract("flatten", <<>>, Option_flatten(self))

\* x instanceof Ok, for the container held and for the caller's other values
Candidates == Values \cup {self}

InstanceOfOk ==
    self # NoObject /\ \E x \in Candidates :
        Operator("instanceof Ok", <<x>>, InstanceOf(Ok_hasInstance(x, nextId)))
InstanceOfErr ==
    self # NoObject /\ \E x \in Candidates :
        Operator("instanceof Err", <<x>>, InstanceOf(Err_hasInstance(x, nextId)))
InstanceOfSome ==
    self # NoObject /\ \E x \in Candidates :
        Operator("instanceof Some", <<x>>, InstanceOf(Some_hasInstance(x, nextId)))
InstanceOfNone ==
    self # NoObject /\ \E x \in Candidates :
        Operator("instanceof None", <<x>>, InstanceOf(None_hasInstance(x, nextId)))

Next ==
    \/ CallOk \/ CallErr \/ CallSome \/ CallNone \/ CallResultFrom \/ CallOptionFrom
    \/ ResultIsOk \/ ResultIsErr \/ ResultExpect \/ ResultExpectErr
    \/ ResultUnwrap \/ ResultUnwrapErr \/ ResultUnwrapOr \/ ResultUnwrapOrElse
    \/ ResultMapOr \/ ResultPeek \/ ResultThrow
    \/ ResultMap \/ ResultMapErr \/ ResultOr \/ ResultOk \/ ResultFlatten
    \/ OptionIsSome \/ OptionIsNone \/ OptionExpect \/ OptionUnwrap
    \/ OptionUnwrapOr \/ OptionUnwrapOrElse \/ OptionMapOr \/ OptionPeek
    \/ OptionMap \/ OptionOr \/ OptionOkOr \/ OptionFlatten
    \/ InstanceOfOk \/ InstanceOfErr \/ InstanceOfSome \/ InstanceOfNone

Spec == Init /\ [][Next]_vars

-----------------------------------------------------------------------------
(* The chaining program: it starts from a container a factory built and goes *)
(* on with the container each call returns, as in Some(v).okOr(e).ok()       *)

\* the values the chaining program wraps
ChainValues ==
    {Undefined, Null, Num(0), Str("boom"), CallerError, ErrorProtoObject,
     NestedResult, NestedOption}

Built(op, arg, out) ==
    /\ self = out /\ path = <<[op |-> op, arg |-> arg]>>
    /\ last = Call(op, NoObject, arg, Return(out))
    /\ nextId = out.id + 1

ChainInit ==
    /\ \/ \E v \in ChainValues : Built("Ok", <<v>>, Ok(v, 1))
       \/ \E v \in ChainValues : Built("Err", <<v>>, Err(v, 1))
       \/ \E v \in ChainValues : Built("Some", <<v>>, Some(v, 1))
       \/ Built("None", <<>>, None(1))
    /\ AsyncIdle /\ PartitionIdle

ThenResultMap ==
    IsResult /\ \E fn \in Fns :
        Chain("map", <<fn>>, Result_map(self, fn, nextId),
              After(Result_map(self, fn, nextId).val))
ThenResultMapErr ==
    IsResult /\ \E fn \in Fns :
        Chain("mapErr", <<fn>>, Result_mapErr(self, fn, nextId),
              After(Result_mapErr(self, fn, nextId).val))
ThenResultOr ==
    IsResult /\ \E or \in ResultAlts(nextId) :
        Chain("or", <<or>>, Result_or(self, or), After(or))
ThenResultOk == IsResult /\ Chain("ok", <<>>, Result_ok(self, nextId), nextId + 1)
ThenResultFlatten == IsResult /\ Chain("flatten", <<>>, Result_flatten(self), nextId)
ThenOptionMap ==
    IsOption /\ \E fn \in Fns :
        Chain("map", <<fn>>, Option_map(self, fn, nextId),
              After(Option_map(self, fn, nextId).val))
ThenOptionOr ==
    IsOption /\ \E or \in OptionAlts(nextId) :
        Chain("or", <<or>>, Option_or(self, or), After(or))
ThenOptionOkOr ==
    IsOption /\ \E err \in OkOrArgs :
        Chain("okOr", <<err>>, Option_okOr(self, err, nextId),
              After(Option_okOr(self, err, nextId).val))
ThenOptionFlatten == IsOption /\ Chain("flatten", <<>>, Option_flatten(self), nextId)

ChainNext ==
    \/ ThenResultMap \/ ThenResultMapErr \/ ThenResultOr \/ ThenResultOk
    \/ ThenResultFlatten
    \/ ThenOptionMap \/ ThenOptionOr \/ ThenOptionOkOr \/ ThenOptionFlatten
    \/ ResultIsOk \/ ResultIsErr \/ ResultUnwrap \/ ResultUnwrapErr
    \/ OptionIsSome \/ OptionIsNone \/ OptionUnwrap

ChainSpec == ChainInit /\ [][ChainNext]_vars

-----------------------------------------------------------------------------
(* The asynchronous adapters: async(p) of src/async.ts and                  *)
(* Result.fromAsync(() => p), both awaiting the caller's promise p           *)

Pending == [state |-> "pending", val |-> Undefined]

\* async(fn) without the catch clause: the rejection leaves the call
async_uncaught(settled, h) ==
    IF settled.kind = "return"
    THEN Return(Ok(settled.val, h))
    ELSE Throw(settled.val)

\* async(fn) after `await fn` has ended with the outcome settled:
\*   try { const data = await fn; return Ok(data) } catch (error) { return Err(error) }
async(settled, h) ==
    IF settled.kind = "return"
    THEN Return(Ok(settled.val, h))
    ELSE Return(Err(settled.val, h))

\* Result.fromAsync(fn) after `await fn()` has ended with the outcome settled:
\*   try { return new Result(await fn()) } catch (e) { return new Result(e) }
Result_fromAsync(settled, h) ==
    IF settled.kind = "return"
    THEN Return(NewResult(settled.val, h))
    ELSE Return(NewResult(settled.val, h))

\* what `await p` ends with once p has settled
Awaited(p) == IF p.state = "fulfilled" THEN Return(p.val) ELSE Throw(p.val)

AsyncInit ==
    /\ self = NoObject /\ path = <<>> /\ last = NoCall /\ nextId = 1
    /\ AsyncIdle /\ PartitionIdle

\* the caller's computation ends
Fulfil ==
    /\ promise.state = "pending"
    /\ \E v \in Values : promise' = [state |-> "fulfilled", val |-> v]
    /\ UNCHANGED <<self, path, last, nextId, asyncPc, asyncOut,
                   fromAsyncPc, fromAsyncOut, optionAsyncPc, optionAsyncOut,
                   partitionVars>>

Reject ==
    /\ promise.state = "pending"
    /\ \E r \in Values : promise' = [state |-> "rejected", val |-> r]
    /\ UNCHANGED <<self, path, last, nextId, asyncPc, asyncOut,
                   fromAsyncPc, fromAsyncOut, optionAsyncPc, optionAsyncOut,
                   partitionVars>>

\* async(p) is called: it runs up to its await and suspends
CallAsync ==
    /\ asyncPc = "idle"
    /\ asyncPc' = "await"
    /\ UNCHANGED <<self, path, last, nextId, promise, asyncOut,
                   fromAsyncPc, fromAsyncOut, optionAsyncPc, optionAsyncOut,
                   partitionVars>>

\* the await of async(p) resumes once p has settled, and the call ends
ResumeAsync ==
    /\ asyncPc = "await"
    /\ promise.state # "pending"
    /\ asyncPc' = "done"
    /\ asyncOut' = async(Awaited(promise), nextId)
    /\ nextId' = After(async(Awaited(promise), nextId).val)
    /\ UNCHANGED <<self, path, last, promise, fromAsyncPc, fromAsyncOut, optionAsyncPc, optionAsyncOut,
                   partitionVars>>

\* Result.fromAsync(() => p) is called: it calls fn, and suspends at its await
CallFromAsync ==
    /\ fromAsyncPc = "idle"
    /\ fromAsyncPc' = "await"
    /\ UNCHANGED <<self, path, last, nextId, promise, asyncPc, asyncOut,
                   fromAsyncOut, optionAsyncPc, optionAsyncOut,
                   partitionVars>>

ResumeFromAsync ==
    /\ fromAsyncPc = "await"
    /\ promise.state # "pending"
    /\ fromAsyncPc' = "done"
    /\ fromAsyncOut' = Result_fromAsync(Awaited(promise), nextId)
    /\ nextId' = After(Result_fromAsync(Awaited(promise), nextId).val)
    /\ UNCHANGED <<self, path, last, promise, asyncPc, asyncOut, optionAsyncPc, optionAsyncOut,
                   partitionVars>>

AsyncNext ==
    \/ Fulfil \/ Reject \/ CallAsync \/ ResumeAsync \/ CallFromAsync \/ ResumeFromAsync

AsyncSpec == AsyncInit /\ [][AsyncNext]_vars

\* The same program under the scheduling the host guarantees: once p has
\* settled, the job that resumes an await is queued and the job queue runs it.
\* Nothing obliges p to settle, nor the program to call an adapter.
AsyncFairSpec ==
    /\ AsyncInit /\ [][AsyncNext]_vars
    /\ WF_vars(ResumeAsync) /\ WF_vars(ResumeFromAsync)

-----------------------------------------------------------------------------
(* Option.from(fn) and Option.fromAsync(() => p): the program calls the     *)
(* adapters and inspects the Option the synchronous one returns             *)

\* Option.fromAsync(() => p) is called: it calls fn, and suspends at its await
CallOptionFromAsync ==
    /\ optionAsyncPc = "idle"
    /\ optionAsyncPc' = "await"
    /\ UNCHANGED <<self, path, last, nextId, promise, asyncPc, asyncOut,
                   fromAsyncPc, fromAsyncOut, optionAsyncOut, partitionVars>>

\* the await resumes once p has settled: the call's promise fulfils with the
\* Option, or rejects with what the await raised
ResumeOptionFromAsync ==
    /\ optionAsyncPc = "await"
    /\ promise.state # "pending"
    /\ optionAsyncPc' = "done"
    /\ optionAsyncOut' = Option_fromAsync(Awaited(promise), nextId)
    /\ nextId' = After(Option_fromAsync(Awaited(promise), nextId).val)
    /\ UNCHANGED <<self, path, last, promise, asyncPc, asyncOut,
                   fromAsyncPc, fromAsyncOut, partitionVars>>

OptionFromNext ==
    \/ Fulfil \/ Reject \/ CallOptionFromAsync \/ ResumeOptionFromAsync
    \/ CallOptionFrom \/ OptionIsSome \/ OptionIsNone \/ OptionUnwrap

OptionFromSpec == AsyncInit /\ [][OptionFromNext]_vars

-----------------------------------------------------------------------------
(* Result.partition(input): input.reduce over the array, one element a step *)

\* the Results the caller puts into the array
PartitionElems ==
    {Ok(Num(2), 0 - 10), Ok(Num(16), 0 - 11), Err(Str("boom"), 0 - 13),
     Ok(Null, 0 - 14), Err(BareError, 0 - 15), Err(ErrorProtoObject, 0 - 16)}

PartitionInputs == UNION {[1..n -> PartitionElems] : n \in 0..MaxLen}

PartitionInit ==
    /\ self = NoObject /\ path = <<>> /\ last = NoCall /\ nextId = 1
    /\ AsyncIdle
    /\ pInput \in PartitionInputs /\ pIdx = 1
    /\ pAcc = [ok |-> <<>>, err |-> <<>>] /\ pOut = NoOutcome

\* a reducer that puts each value at the front of its array (unshift for push)
Reducer_unshift(acc, e, h) ==
    IF Truthy(Result_isOk(e))
    THEN Return([acc EXCEPT !.ok = <<e.val>> \o @])
    ELSE Return([acc EXCEPT !.err = <<e.val>> \o @])

\* the reducer: if (e.isOk()) acc.ok.push(e.unwrap()); else acc.err.push(e.unwrapErr());
\* an exception of unwrap or unwrapErr ends the whole call
Reducer(acc, e, h) ==
    IF Truthy(Result_isOk(e))
    THEN IF Result_unwrap(e, h).kind = "throw"
         THEN Result_unwrap(e, h)
         ELSE Return([acc EXCEPT !.ok = Append(@, Result_unwrap(e, h).val)])
    ELSE IF Result_unwrapErr(e, h).kind = "throw"
         THEN Result_unwrapErr(e, h)
         ELSE Return([acc EXCEPT !.err = Append(@, Result_unwrapErr(e, h).val)])

PartitionStep ==
    /\ pOut = NoOutcome
    /\ pIdx <= Len(pInput)
    /\ IF Reducer(pAcc, pInput[pIdx], nextId).kind = "throw"
       THEN pOut' = Reducer(pAcc, pInput[pIdx], nextId) /\ UNCHANGED pAcc
       ELSE pAcc' = Reducer(pAcc, pInput[pIdx], nextId).val /\ UNCHANGED pOut
    /\ pIdx' = pIdx + 1
    /\ UNCHANGED <<self, path, last, nextId, asyncVars, pInput>>

\* reduce has visited every element: partition returns the accumulator
PartitionReturn ==
    /\ pOut = NoOutcome
    /\ pIdx > Len(pInput)
    /\ pOut' = Return(pAcc)
    /\ UNCHANGED <<self, path, last, nextId, asyncVars, pInput, pIdx, pAcc>>

PartitionNext == PartitionStep \/ PartitionReturn

PartitionSpec == PartitionInit /\ [][PartitionNext]_vars

-----------------------------------------------------------------------------
(* The vocabulary of the properties *)

\* A value is classified as failure when it is an Error instance or has the
\* Error constructor in its prototype chain.
IsFailureValue(v) == InstanceOfError(v) \/ ErrorIsPrototypeOf(v)

True == Bool(TRUE)
False == Bool(FALSE)

\* the call that built the container the program holds
Factory == path[1]

-----------------------------------------------------------------------------
(* C1 *)

\* C1: Result.from(fn) and Result.fromAsync(fn) never throw or reject; whatever
\* value x fn throws (or its promise rejects with), Error or not, the adapter
\* yields a container with isErr() true, isOk() false and contained value x.
C1_FromCapturesAsFailure ==
    /\ (last.op = "Result.from" /\ last.arg[1].kind = "throw") =>
          /\ last.out.kind = "return"
          /\ Truthy(Result_isErr(last.out.val))
          /\ ~Truthy(Result_isOk(last.out.val))
          /\ last.out.val.val = last.arg[1].val
    /\ (fromAsyncPc = "done" /\ promise.state = "rejected") =>
          /\ fromAsyncOut.kind = "return"
          /\ Truthy(Result_isErr(fromAsyncOut.val))
          /\ ~Truthy(Result_isOk(fromAsyncOut.val))
          /\ fromAsyncOut.val.val = promise.val

-----------------------------------------------------------------------------
(* C2 *)

\* C2: async(p): when p fulfils with a value v not classified as failure the
\* container has isOk() true and unwrap() returns v; when p rejects with any
\* reason r the container has isErr() true, and unwrapErr() returns r itself
\* when r is an Error instance.
C2_AsyncWrapsSettlement ==
    asyncPc = "done" =>
        /\ asyncOut.kind = "return"
        /\ (promise.state = "fulfilled" /\ ~IsFailureValue(promise.val)) =>
              /\ Truthy(Result_isOk(asyncOut.val))
              /\ Result_unwrap(asyncOut.val, nextId) = Return(promise.val)
        /\ promise.state = "rejected" =>
              /\ Truthy(Result_isErr(asyncOut.val))
              /\ InstanceOfError(promise.val) =>
                    Result_unwrapErr(asyncOut.val, nextId) = Return(promise.val)

-----------------------------------------------------------------------------
(* C3 *)

\* C3: for every promise p, async(p) and Result.fromAsync(() => p) resolve to
\* containers with the same classification and the same contained value.
C3_AsyncAgreesWithFromAsync ==
    (asyncPc = "done" /\ fromAsyncPc = "done") =>
        /\ asyncOut.kind = fromAsyncOut.kind
        /\ Truthy(Result_isOk(asyncOut.val)) = Truthy(Result_isOk(fromAsyncOut.val))
        /\ Truthy(Result_isErr(asyncOut.val)) = Truthy(Result_isErr(fromAsyncOut.val))
        /\ asyncOut.val.val = fromAsyncOut.val.val

-----------------------------------------------------------------------------
(* C4 *)

\* C4: for every v not classified as failure, falsy values included,
\* Ok(v).isOk() is true and Ok(v).isErr() is false; for every v that is an Error
\* instance or a string, Err(v).isErr() is true and Err(v).isOk() is false.
C4_FactoryClassification ==
    /\ (path # <<>> /\ Factory.op = "Ok" /\ ~IsFailureValue(Factory.arg[1])) =>
          /\ last.op = "isOk" => last.out = Return(True)
          /\ last.op = "isErr" => last.out = Return(False)
    /\ (path # <<>> /\ Factory.op = "Err"
          /\ (InstanceOfError(Factory.arg[1]) \/ TypeOf(Factory.arg[1]) = "string")) =>
          /\ last.op = "isErr" => last.out = Return(True)
          /\ last.op = "isOk" => last.out = Return(False)

-----------------------------------------------------------------------------
(* C5 *)

\* the program ran Some(v).okOr(e).ok() and then called unwrap()
RoundTripDone ==
    /\ Len(path) = 3
    /\ path[1].op = "Some" /\ path[2].op = "okOr" /\ path[3].op = "ok"
    /\ last.op = "unwrap"

\* the program ran None().okOr(e)
NoneOkOrDone == Len(path) = 2 /\ path[1].op = "None" /\ path[2].op = "okOr"

\* None().okOr(e): isErr() is true, and unwrapErr() returns e when e is an error
\* value, or a new error whose message is e when e is a string
NoneOkOrIsErr ==
    NoneOkOrDone =>
        /\ last.op = "isErr" => last.out = Return(True)
        /\ last.op = "unwrapErr" =>
              IF TypeOf(path[2].arg[1]) = "string"
              THEN /\ last.out.kind = "return"
                   /\ InstanceOfError(last.out.val)
                   /\ last.out.val.message = path[2].arg[1].s
                   /\ last.out.val.id > 0
              ELSE last.out = Return(path[2].arg[1])

\* C5 as stated: for every non-absent v and every failure argument e,
\* Some(v).okOr(e).ok().unwrap() returns v; None().okOr(e) is a failure holding
\* e (or a new error with message e).
C5_RoundTripEveryValue ==
    /\ (RoundTripDone /\ path[1].arg[1] # none) => last.out = Return(path[1].arg[1])
    /\ NoneOkOrIsErr

\* C5, amended: the round trip returns v for every non-absent v that is not
\* classified as failure (Some(v).okOr(e) of an error value v is a failure, and
\* ok() turns it into None()); the None().okOr(e) half is as stated.
C5_RoundTrip ==
    /\ (RoundTripDone /\ path[1].arg[1] # none /\ ~IsFailureValue(path[1].arg[1])) =>
          last.out = Return(path[1].arg[1])
    /\ NoneOkOrIsErr

C5_Witness ==
    /\ RoundTripDone
    /\ path[1].arg[1] = Null
    /\ path[2].arg[1] = Str("boom")
    /\ last.out = Return(Null)

-----------------------------------------------------------------------------
(* C6 *)

\* C6: x instanceof Ok / Err / Some / None is true exactly when x is a container
\* whose matching predicate reports true, and false (never an exception) for
\* every other candidate.
C6_MembershipTest ==
    /\ last.op = "instanceof Ok" =>
          last.out = Return(Bool(last.arg[1].t = "Result"
                                   /\ Truthy(Result_isOk(last.arg[1]))))
    /\ last.op = "instanceof Err" =>
          last.out = Return(Bool(last.arg[1].t = "Result"
                                   /\ Truthy(Result_isErr(last.arg[1]))))
    /\ last.op = "instanceof Some" =>
          last.out = Return(Bool(last.arg[1].t = "Option"
                                   /\ Truthy(Option_isSome(last.arg[1]))))
    /\ last.op = "instanceof None" =>
          last.out = Return(Bool(last.arg[1].t = "Option"
                                   /\ Truthy(Option_isNone(last.arg[1]))))

-----------------------------------------------------------------------------
(* C7 *)

\* the call raised a newly built Error whose message is the caller's msg
RaisedWithMsg ==
    /\ last.out.kind = "throw"
    /\ InstanceOfError(last.out.val)
    /\ last.out.val.name = "Error"
    /\ last.out.val.message = last.arg[1]
    /\ last.out.val.id >= nextId

\* C7: expect(msg) on a failure-classified Result and expectErr(msg) on a
\* success-classified Result throw a new Error whose message is msg, whatever
\* the contained value (null and undefined included); on a matching state they
\* return the contained value.
C7_ExpectMismatch ==
    /\ (last.op = "expect" /\ last.recv.t = "Result") =>
          IF IsFailureValue(last.recv.val)
          THEN RaisedWithMsg
          ELSE last.out = Return(last.recv.val)
    /\ last.op = "expectErr" =>
          IF IsFailureValue(last.recv.val)
          THEN last.out = Return(last.recv.val)
          ELSE RaisedWithMsg

-----------------------------------------------------------------------------
(* C8 *)

\* C8: unwrap() raises on every failure-classified Result and returns the
\* contained value of a success-classified one; unwrapErr() raises on every
\* success-classified Result and returns the contained failure otherwise.
C8_UnwrapRaisesOnMismatch ==
    /\ (last.op = "unwrap" /\ last.recv.t = "Result") =>
          IF IsFailureValue(last.recv.val)
          THEN last.out.kind = "throw"
          ELSE last.out = Return(last.recv.val)
    /\ last.op = "unwrapErr" =>
          IF IsFailureValue(last.recv.val)
          THEN last.out = Return(last.recv.val)
          ELSE last.out.kind = "throw"

\* unwrap() raised on a Result holding an error without stack, message or name
C8_Witness ==
    /\ last.op = "unwrap"
    /\ last.recv.t = "Result"
    /\ last.recv.val = BareError
    /\ last.out.kind = "throw"

-----------------------------------------------------------------------------
(* C9 *)

NonRaising ==
    {"isOk", "isErr", "isSome", "isNone", "map", "mapErr", "mapOr", "or", "ok",
     "okOr", "unwrapOr", "unwrapOrElse", "flatten", "peek"}

Raising == {"unwrap", "expect", "unwrapErr", "expectErr", "throw"}

\* C9: on every Option or Result, in either state, the classification and
\* transformation methods return without raising (the caller's closures being
\* total); a method call that raises is one of unwrap, expect, unwrapErr,
\* expectErr and throw.
C9_CombinatorsNeverThrow ==
    IsContainer(last.recv) =>
        /\ last.op \in NonRaising => last.out.kind = "return"
        /\ last.out.kind = "throw" => last.op \in Raising

\* unwrapOrElse returned on a failure-classified Result
C9_Witness ==
    /\ last.op = "unwrapOrElse"
    /\ last.recv.t = "Result"
    /\ IsFailureValue(last.recv.val)
    /\ last.out.kind = "return"

-----------------------------------------------------------------------------
(* C10 *)

HoldsSuccess(e) == ~IsFailureValue(e.val)
HoldsFailure(e) == IsFailureValue(e.val)
Contained(seq) == [i \in 1..Len(seq) |-> seq[i].val]

\* C10: Result.partition(seq) never raises and returns {ok, err}: ok the
\* contained values of the success-classified elements, err those of the
\* failure-classified elements, each in the original order with duplicates
\* kept; an empty input yields two empty sequences.
C10_PartitionInOrder ==
    /\ pOut.kind # "throw"
    /\ pOut.kind = "return" =>
          /\ pOut.val.ok = Contained(SelectSeq(pInput, HoldsSuccess))
          /\ pOut.val.err = Contained(SelectSeq(pInput, HoldsFailure))
          /\ Len(pOut.val.ok) + Len(pOut.val.err) = Len(pInput)
          /\ pInput = <<>> => (pOut.val.ok = <<>> /\ pOut.val.err = <<>>)

\* partition returned for an input with a repeated success and a failure
C10_Witness ==
    /\ pOut.kind = "return"
    /\ Len(pInput) = 3
    /\ pInput[1] = pInput[2]
    /\ HoldsSuccess(pInput[1])
    /\ HoldsFailure(pInput[3])
    /\ Len(pOut.val.ok) = 2

-----------------------------------------------------------------------------
(* C11 *)

Combinators == {"map", "mapErr", "or", "flatten"}

\* the call returned a container created by the call itself (of the calls here
\* only or takes a container as argument)
ReturnedFresh ==
    /\ last.out.kind = "return"
    /\ IsContainer(last.out.val)
    /\ last.out.val.id >= nextId
    /\ last.out.val # last.recv
    /\ last.op = "or" => last.out.val # last.arg[1]

\* the receiver applies fn: a success-classified Result or a present Option for
\* map, a failure-classified Result for mapErr
AppliesFn ==
    CASE last.op = "map" /\ last.recv.t = "Result" -> ~IsFailureValue(last.recv.val)
      [] last.op = "map" /\ last.recv.t = "Option" -> last.recv.val # none
      [] last.op = "mapErr" -> IsFailureValue(last.recv.val)
      [] OTHER -> FALSE

\* C11 as stated: no call changes the contained value of an existing container,
\* and map, mapErr, or and flatten each return a newly created container, never
\* the receiver or an argument.
C11_AlwaysFresh ==
    IsContainer(last.recv) =>
        /\ self = last.recv
        /\ last.op \in Combinators => ReturnedFresh

\* C11, amended: no call changes the contained value of an existing container;
\* map and mapErr return a newly created container when they apply fn and the
\* receiver itself otherwise, or returns the receiver or its argument, and
\* flatten returns the receiver or the container the receiver holds.
C11_Immutable ==
    IsContainer(last.recv) =>
        /\ self = last.recv
        /\ last.op \in {"map", "mapErr"} =>
              IF AppliesFn THEN ReturnedFresh ELSE last.out = Return(last.recv)
        /\ last.op = "or" =>
              (last.out = Return(last.recv) \/ last.out = Return(last.arg[1]))
        /\ last.op = "flatten" =>
              (last.out = Return(last.recv) \/ last.out = Return(last.recv.val))

\* mapErr built a new container from a failure and left the receiver as it was
C11_Witness ==
    /\ last.op = "mapErr"
    /\ IsFailureValue(last.recv.val)
    /\ ReturnedFresh
    /\ last.out.val.val = MappedError
    /\ self = last.recv

-----------------------------------------------------------------------------
(* C12 *)

IsNullish(v) == v = Null \/ v = Undefined

\* the Option o reports absence
ReportsNone(o) == Option_isNone(o) = True /\ Option_isSome(o) = False

\* the Option o reports presence of the value r
ReportsSome(o, r) ==
    /\ Option_isSome(o) = True /\ Option_isNone(o) = False
    /\ Option_unwrap(o, nextId) = Return(r)

\* Option.from(fn) returned the Option the program holds
OptionFromReturned ==
    /\ path # <<>> /\ Factory.op = "Option.from"
    /\ Factory.arg[1].kind = "return"

-----------------------------------------------------------------------------
(* C13 *)

\* C13: Option.from(fn) does not catch: when fn throws x the call raises x and
\* yields no container; Option.fromAsync(fn) returns a promise that rejects
\* with the reason when fn's promise rejects.
C13_FromPropagates ==
    /\ (last.op = "Option.from" /\ last.arg[1].kind = "throw") =>
          /\ last.out = Throw(last.arg[1].val)
          /\ self = NoObject
    /\ (optionAsyncPc = "done" /\ promise.state = "rejected") =>
          optionAsyncOut = Throw(promise.val)

\* Option.from raised the string its closure threw, and Option.fromAsync has
\* rejected with the Error its promise rejected with
C13_Witness ==
    /\ last.op = "Option.from"
    /\ last.arg[1] = Thunk("throw", Str("boom"))
    /\ last.out = Throw(Str("boom"))
    /\ optionAsyncPc = "done"
    /\ promise = [state |-> "rejected", val |-> CallerError]
    /\ optionAsyncOut = Throw(CallerError)

-----------------------------------------------------------------------------
(* C14 *)

\* the Options in sight: the one the program holds and the one the last call
\* returned
OptionsInSight ==
    (IF self.t = "Option" THEN {self} ELSE {})
        \cup (IF last.out.kind = "return" /\ last.out.val.t = "Option"
              THEN {last.out.val} ELSE {})

\* C14: Some(v).isSome() is true and Some(v).isNone() is false for every v,
\* null and undefined included; None().isNone() is true and None().isSome()
\* is false; every Option satisfies exactly one of isSome() and isNone(),
\* decided by identity of the contained value with the absence marker.
C14_SomeNoneExclusive ==
    /\ (path # <<>> /\ Factory.op = "Some") =>
          /\ Option_isSome(self) = True /\ Option_isNone(self) = False
          /\ self.val = Factory.arg[1]
          /\ last.op = "isSome" => last.out = Return(True)
          /\ last.op = "isNone" => last.out = Return(False)
    /\ (path # <<>> /\ Factory.op = "None") =>
          /\ Option_isNone(self) = True /\ Option_isSome(self) = False
          /\ last.op = "isSome" => last.out = Return(False)
          /\ last.op = "isNone" => last.out = Return(True)
    /\ \A o \in OptionsInSight :
          /\ Option_isSome(o) \in {True, False}
          /\ Option_isNone(o) \in {True, False}
          /\ Option_isSome(o) # Option_isNone(o)
          /\ Option_isSome(o) = True <=> o.val # none

\* Some(undefined).isSome() returned true
C14_Witness ==
    /\ path # <<>> /\ Factory.op = "Some" /\ Factory.arg[1] = Undefined
    /\ last.op = "isSome" /\ last.recv = self /\ last.out = Return(True)

-----------------------------------------------------------------------------
(* C15 *)

\* the program built its Result with Err(input)
BuiltByErr == path # <<>> /\ Factory.op = "Err"

\* C15: Err(s) for a string s, the empty string included, returns a
\* failure-classified Result whose contained value is a new Error with
\* message s; Err(x) for a non-string x stores x itself as the contained value.
C15_ErrWrapsStrings ==
    BuiltByErr =>
        IF TypeOf(Factory.arg[1]) = "string"
        THEN /\ InstanceOfError(self.val)
             /\ self.val.name = "Error"
             /\ self.val.message = Factory.arg[1].s
             /\ self.val.id >= 0
             /\ self.val.id # self.id
             /\ Truthy(Result_isErr(self))
             /\ Result_isOk(self) = False
             /\ last.op = "isErr" => last.out = Return(True)
             /\ last.op = "unwrapErr" => last.out = Return(self.val)
        ELSE /\ self.val = Factory.arg[1]
             /\ last.op = "peek" => last.out = Return(Factory.arg[1])

\* Err("") holds a new Error with the empty message; unwrapErr() returned it
C15_Witness ==
    /\ BuiltByErr
    /\ Factory.arg[1] = Str("")
    /\ last.op = "unwrapErr"
    /\ last.out.kind = "return"
    /\ InstanceOfError(last.out.val)
    /\ last.out.val.message = ""

\* Err(0) holds the number 0 itself
C15_WitnessNonString ==
    /\ BuiltByErr
    /\ Factory.arg[1] = Num(0)
    /\ last.op = "peek" /\ last.out = Return(Num(0))

-----------------------------------------------------------------------------
(* C16 *)

\* the promise an adapter call returned is still pending
AsyncPending == asyncPc # "done" /\ asyncOut = NoOutcome
FromAsyncPending == fromAsyncPc # "done" /\ fromAsyncOut = NoOutcome

\* the promise an adapter call returned is fulfilled with a Result
AsyncFulfilled ==
    asyncPc = "done" /\ asyncOut.kind = "return" /\ asyncOut.val.t = "Result"
FromAsyncFulfilled ==
    fromAsyncPc = "done" /\ fromAsyncOut.kind = "return" /\ fromAsyncOut.val.t = "Result"

\* C16: the promise returned by async(p) and Result.fromAsync(fn) stays
\* pending while p is pending, settles only after p has settled, is never
\* rejected, is eventually fulfilled with a container once the adapter was
\* called and p has fulfilled or rejected, and stays pending forever if p never
\* settles.
C16_SettlesAfterComputation ==
    /\ [](promise.state = "pending" => AsyncPending /\ FromAsyncPending)
    /\ [][(asyncOut' # asyncOut \/ fromAsyncOut' # fromAsyncOut)
             => promise.state # "pending" /\ promise' = promise]_vars
    /\ [](asyncOut.kind # "throw" /\ fromAsyncOut.kind # "throw")
    /\ [](AsyncPending \/ AsyncFulfilled)
    /\ [](FromAsyncPending \/ FromAsyncFulfilled)
    /\ (asyncPc = "await" /\ promise.state # "pending") ~> AsyncFulfilled
    /\ (fromAsyncPc = "await" /\ promise.state # "pending") ~> FromAsyncFulfilled
    /\ [](promise.state = "pending") => [](AsyncPending /\ FromAsyncPending)

\* both adapters were called while p was pending, p then rejected, and both
\* returned promises are fulfilled with a Result
C16_Witness ==
    /\ promise.state = "rejected"
    /\ AsyncFulfilled /\ FromAsyncFulfilled
    /\ asyncOut.val.val = promise.val

\* both adapters are suspended at their await and p is still pending
C16_WitnessSuspended ==
    /\ asyncPc = "await" /\ fromAsyncPc = "await"
    /\ promise.state = "pending"
    /\ AsyncPending /\ FromAsyncPending

-----------------------------------------------------------------------------
(* C17 *)

\* the last call was map or mapErr on the Result the program holds
MappedResult ==
    /\ last.op \in {"map", "mapErr"}
    /\ last.recv.t = "Result"
    /\ last.out.kind = "return"

\* C17: map and mapErr preserve the classification of a Result for every
\* mapping function: x.map(fn).isOk() equals x.isOk() and x.mapErr(fn).isErr()
\* equals x.isErr(), whatever fn returns.
C17_MapPreservesClassification ==
    MappedResult =>
        /\ Truthy(Result_isOk(last.out.val)) = Truthy(Result_isOk(last.recv))
        /\ Truthy(Result_isErr(last.out.val)) = Truthy(Result_isErr(last.recv))

====
